---- MODULE Spec2Model ----
(***************************************************************************)
(* Conversation synchronisation core of WhiteChat (the optimistic App      *)
(* component, src/unnamed/part_000 lines 520-1084).                        *)
(*                                                                         *)
(* React state is modelled by the variables conversations,                 *)
(* activeConversationId, messages, isSending and chatError.  A handler     *)
(* runs atomically between two awaits; every step ends with the effects    *)
(* (message subscription effect, active-conversation selector effect)      *)
(* run to their fixpoint, as React does after a commit.  The signed-in     *)
(* user is fixed: the model starts once onAuthStateChanged has delivered   *)
(* a user.  The Firestore collections are remoteConversations and          *)
(* remoteMessages; a snapshot delivers their current content.              *)
(*                                                                         *)
(* The module also holds the timer-driven chat (src/unnamed/part_001) and  *)
(* the peer-to-peer chat (src/src/App.tsx), each with its own variables    *)
(* and its own specification.                                              *)
(***************************************************************************)
EXTENDS Integers, Sequences, FiniteSets, TLC

\* ---------------------------------------------------------------- bounds
MaxSends == 1             \* handleSendMessage calls begun while no send is pending
MaxCreates == 1           \* handleNewConversation calls that pass the guard of line 719
MaxTimerSends == 5        \* handleSendMessage calls of the timer chat that pass the guard
MaxPeerOps == 3           \* handleUserSelect and handleSendMessage calls of the peer chat
MaxPad == 2               \* characters before and after the words of a title input
MaxWord == 50             \* letters of the longest word of a title input

\* ------------------------------------------------------ program constants
TitleLimit == 48

NoId == 0                 \* null activeConversationId
FirstGeneratedId == 5     \* ids 1..4 are the documents already stored
FirstClock == 6           \* the stored documents were written at times 3..5
Skews == {-3, 3}          \* the client clock is behind or ahead of the server clock

Whitespace == {" ", "\t"}
Ellipsis == "ELLIPSIS"    \* the single character U+2026

DefaultTitle ==
  <<"N","e","w"," ","U","P","S","C"," ","c","o","n","v","e","r","s","a","t","i","o","n">>

FallbackReply == <<"r","e","a","d","y">>

\* chatError values (null, and one tag per message the code sets)
ErrNone == "none"
ErrNewConversation == "Unable to start a new conversation right now."
ErrOpenConversation == "Unable to open a new conversation."
ErrSendMessage == "Unable to send your message."
ErrMissingKey == "Missing OpenRouter API key."
ErrRequestFailed == "OpenRouter request failed"
ErrTransport == "Failed to fetch"
ErrReplyNotSaved == "Your mentor reply could not be saved."
ErrLoadConversations == "Unable to load your previous sessions right now."
ErrLoadMessages == "Unable to load this session."

PersistenceErrors == {ErrNewConversation, ErrOpenConversation, ErrSendMessage, ErrReplyNotSaved}
CompletionErrors == {ErrMissingKey, ErrRequestFailed, ErrTransport}
SubscriptionErrors == {ErrLoadConversations, ErrLoadMessages}

NoConversation == [id |-> NoId, title |-> <<>>, createdAt |-> 0, updatedAt |-> 0]
NoMessage == [id |-> NoId, role |-> "user", content |-> <<>>, createdAt |-> 0]

\* what the user may type into the composer, and what the endpoint may reply
Drafts == { <<" ","h","i"," ">>, <<" ">>, <<>> }
Replies == { <<"o","k"," ">>, <<>> }     \* <<>>: an empty or absent content

VARIABLES
  conversations,            \* useState<Conversation[]>
  activeConversationId,     \* useState<string | null>
  messages,                 \* useState<ChatMessage[]>
  isSending,                \* useState(false)
  chatError,                \* useState<string | null>
  subscribedConversationId, \* conversation the live message listener is on
  send,                     \* locals and position of the handleSendMessage call
  creates,                  \* locals of the suspended handleNewConversation calls
  remoteConversations,      \* collection mentorConversations
  remoteMessages,           \* collections mentorConversations/<id>/messages
  clock,                    \* true time: one tick per reading of a clock
  clientSkew,               \* client clock minus server clock
  lastCall,                 \* outcome of the latest handler call
  sendCalls,                \* handleSendMessage calls that passed the guard
  createCalls               \* handleNewConversation calls that passed the guard

\* the timer-driven chat (src/unnamed/part_001)
VARIABLES
  timerMessages,            \* useState<ChatMessage[]>: the authors, in list order
  isCompanionTyping,        \* useState(false)
  pendingTimeout,           \* useRef<number | null>: pendingTimeout.current
  scheduled,                \* timers of window.setTimeout not yet fired nor cleared
  timerSends                \* handleSendMessage calls that passed the guard

\* the peer-to-peer chat (src/src/App.tsx), one App per signed-in user
VARIABLES
  peerConversations,        \* useState<Map<string, Conversation>> of each App
  currentConversationId,    \* useState<string | null> of each App
  newMessage,               \* useState<string> of each App
  peerCalls,                \* the suspended handler call of each App
  conversationDocs,         \* collection conversations
  messageDocs,              \* collections conversations/<id>/messages
  peerOps                   \* handler calls begun

appVars == <<conversations, activeConversationId, messages, isSending, chatError,
             subscribedConversationId, send, creates, remoteConversations,
             remoteMessages, clock, clientSkew, lastCall, sendCalls, createCalls>>

timerVars == <<timerMessages, isCompanionTyping, pendingTimeout, scheduled, timerSends>>

peerVars == <<peerConversations, currentConversationId, newMessage, peerCalls,
              conversationDocs, messageDocs, peerOps>>

vars == <<appVars, timerVars, peerVars>>

\* ------------------------------------------------------------ text helpers
IsSpace(c) == c \in Whitespace

RECURSIVE TrimStart(_)
TrimStart(s) ==
  IF s = <<>> THEN <<>>
  ELSE IF IsSpace(Head(s)) THEN TrimStart(Tail(s)) ELSE s

RECURSIVE TrimEnd(_)
TrimEnd(s) ==
  IF s = <<>> THEN <<>>
  ELSE IF IsSpace(s[Len(s)]) THEN TrimEnd(SubSeq(s, 1, Len(s) - 1)) ELSE s

\* String.prototype.trim
Trim(s) == TrimEnd(TrimStart(s))

\* text.replace(/\s+/g, ' ')
RECURSIVE CollapseWhitespace(_)
CollapseWhitespace(s) ==
  IF s = <<>> THEN <<>>
  ELSE IF IsSpace(Head(s))
       THEN <<" ">> \o CollapseWhitespace(TrimStart(s))
       ELSE <<Head(s)>> \o CollapseWhitespace(Tail(s))

\* mutant of generateTitle: whitespace inside the text is kept as typed
generateTitle_KeepsWhitespaceRuns(text) ==
  LET cleaned == Trim(text)
  IN IF cleaned = <<>> THEN DefaultTitle
     ELSE IF Len(cleaned) > TitleLimit
          THEN SubSeq(cleaned, 1, TitleLimit) \o <<Ellipsis>>
          ELSE cleaned

generateTitle(text) ==
  LET cleaned == Trim(CollapseWhitespace(text))
  IN IF cleaned = <<>> THEN DefaultTitle
     ELSE IF Len(cleaned) > TitleLimit
          THEN SubSeq(cleaned, 1, TitleLimit) \o <<Ellipsis>>
          ELSE cleaned

\* new Date() on the client, serverTimestamp() on the server
now == clock + clientSkew
serverNow == clock

\* toIsoString: a Timestamp becomes its date, anything else the current time
toIsoString(value, current) == IF value \in Nat THEN value ELSE current

\* ------------------------------------------------------- sequence helpers
Ids(s) == {s[i].id : i \in 1..Len(s)}

WithoutId(s, id) == SelectSeq(s, LAMBDA c : c.id # id)

\* conversations.find(...) ?? null
FindConversation(s, id) ==
  IF id \in Ids(s) THEN s[CHOOSE i \in 1..Len(s) : s[i].id = id] ELSE NoConversation

\* ------------------------------------------------------- the remote store
\* orderBy('updatedAt', 'desc'); equal keys are ordered by document id
ConversationBefore(a, b) ==
  a.updatedAt > b.updatedAt \/ (a.updatedAt = b.updatedAt /\ a.id > b.id)

\* orderBy('createdAt', 'asc'); equal keys are ordered by document id
MessageBefore(a, b) ==
  a.createdAt < b.createdAt \/ (a.createdAt = b.createdAt /\ a.id < b.id)

RECURSIVE ConversationsQuery(_)
ConversationsQuery(docs) ==
  IF docs = {} THEN <<>>
  ELSE LET first == CHOOSE d \in docs : \A e \in docs \ {d} : ConversationBefore(d, e)
       IN <<first>> \o ConversationsQuery(docs \ {first})

RECURSIVE MessagesQuery(_)
MessagesQuery(docs) ==
  IF docs = {} THEN <<>>
  ELSE LET first == CHOOSE d \in docs : \A e \in docs \ {d} : MessageBefore(d, e)
       IN <<first>> \o MessagesQuery(docs \ {first})

\* snapshot.docs.map(...) of the conversations listener
nextConversations ==
  LET docs == ConversationsQuery(remoteConversations)
  IN [i \in 1..Len(docs) |->
        [id |-> docs[i].id, title |-> docs[i].title,
         createdAt |-> toIsoString(docs[i].createdAt, now),
         updatedAt |-> toIsoString(docs[i].updatedAt, now)]]

\* snapshot.docs.map(...) of the messages listener on conversation cid
nextMessages(cid) ==
  LET docs == MessagesQuery({m \in remoteMessages : m.conversationId = cid})
  IN [i \in 1..Len(docs) |->
        [id |-> docs[i].id,
         role |-> IF docs[i].role = "assistant" THEN "assistant" ELSE "user",
         content |-> docs[i].content,
         createdAt |-> toIsoString(docs[i].createdAt, now)]]

\* ----------------------------------------------------------------- ids
\* every id some part of the state refers to
UsedIds ==
  Ids(conversations) \cup Ids(messages)
  \cup {d.id : d \in remoteConversations}
  \cup {m.id : m \in remoteMessages} \cup {m.conversationId : m \in remoteMessages}
  \cup {send.conversationId, send.userMessage.id, send.assistantMessage.id}
  \cup Ids(send.previousMessages) \cup Ids(send.conversations)
  \cup {c.conversationId : c \in creates} \cup {c.previousActiveId : c \in creates}
  \cup UNION {Ids(c.previousConversations) : c \in creates}
  \cup UNION {Ids(c.previousMessagesState) : c \in creates}
  \cup {activeConversationId, subscribedConversationId}

\* crypto.randomUUID(): an id that occurs nowhere (the least one, ids that
\* occur nowhere being interchangeable)
generateId ==
  CHOOSE i \in FirstGeneratedId..(FirstGeneratedId + Cardinality(UsedIds)) :
    /\ i \notin UsedIds
    /\ \A j \in FirstGeneratedId..(i - 1) : j \in UsedIds

\* ---------------------------------------------------------------- effects
\* mutant of SelectActive: the first entry is chosen whatever was active
SelectActive_AlwaysFirst(convs, active) ==
  IF Len(convs) = 0 THEN NoId ELSE convs[1].id

\* mutant of SelectActive: an active id that left the list is kept
SelectActive_KeepsStaleId(convs, active) ==
  IF Len(convs) = 0 THEN NoId
  ELSE IF active = NoId THEN convs[1].id ELSE active

\* the active-conversation selector effect
SelectActive(convs, active) ==
  IF Len(convs) = 0 THEN NoId
  ELSE IF active = NoId \/ active \notin Ids(convs) THEN convs[1].id
       ELSE active

\* mutant of EffectMessages: the effect never empties messages
EffectMessages_KeepsMessages(active, subscribed, msgs) == msgs

\* the messages subscription effect: only a change to "no conversation"
\* touches messages; the listener always follows activeConversationId
EffectMessages(active, subscribed, msgs) ==
  IF active # subscribed /\ active = NoId THEN <<>> ELSE msgs

\* mutant of Resubscribe: a listener, once created, is never replaced
Resubscribe_KeepsListener(active, subscribed) ==
  IF subscribed = NoId THEN active ELSE subscribed

\* the messages subscription effect on a change of activeConversationId: the
\* cleanup unsubscribes the old listener, then onSnapshot creates the new one
Resubscribe(active, subscribed) == active

\* effects in declaration order, re-run until no effect changes the state
RECURSIVE RunEffects(_, _, _, _)
RunEffects(convs, active, msgs, subscribed) ==
  LET msgs1 == EffectMessages(active, subscribed, msgs)
      active1 == SelectActive(convs, active)
      subscribed1 == Resubscribe(active, subscribed)
  IN IF active1 = active
     THEN [conversations |-> convs, activeConversationId |-> active,
           messages |-> msgs1, subscribedConversationId |-> subscribed1]
     ELSE RunEffects(convs, active1, msgs1, subscribed1)

\* commit of a render: the new state values, then the effects
Render(convs, active, msgs) ==
  LET r == RunEffects(convs, active, msgs, subscribedConversationId)
  IN /\ conversations' = r.conversations
     /\ activeConversationId' = r.activeConversationId
     /\ messages' = r.messages
     /\ subscribedConversationId' = r.subscribedConversationId

\* ------------------------------------------------------------------- Init
\* pendingTimeout.current = null
NoTimer == 0

\* the three messages the timer chat starts with
SeedMessages == <<"companion", "self", "companion">>

TimerInit ==
  /\ timerMessages = SeedMessages
  /\ isCompanionTyping = FALSE
  /\ pendingTimeout = NoTimer
  /\ scheduled = {}
  /\ timerSends = 0

\* the users that run the peer-to-peer App, among the profiles (uids in sort order)
Apps == {1, 2}
Profiles == {1, 2, 3}

\* null currentConversationId
NoPair == <<>>

PeerIdle == [pc |-> "idle", conversationId |-> NoPair, content |-> <<>>]

\* what a user may type into the message input of the peer chat
PeerDrafts == { <<"y","o"," ">>, <<>> }

PeerInit ==
  /\ peerConversations = [u \in Apps |-> {}]
  /\ currentConversationId = [u \in Apps |-> NoPair]
  /\ newMessage = [u \in Apps |-> <<>>]
  /\ peerCalls = [u \in Apps |-> PeerIdle]
  /\ conversationDocs = {}
  /\ messageDocs = {}
  /\ peerOps = 0

SendIdle ==
  [pc |-> "idle", text |-> <<>>, previousMessages |-> <<>>,
   isFirstUserMessage |-> FALSE, conversationId |-> NoId,
   conversations |-> <<>>, existingConversation |-> NoConversation,
   userMessage |-> NoMessage, conversationAfterUser |-> NoConversation,
   assistantMessage |-> NoMessage]

\* documents stored by earlier sessions of the same user
StoredConversations ==
  { [id |-> 1, title |-> <<"o","l","d">>, createdAt |-> 3, updatedAt |-> 5],
    [id |-> 2, title |-> DefaultTitle, createdAt |-> 3, updatedAt |-> 3] }

StoredMessages ==
  { [conversationId |-> 1, id |-> 3, role |-> "user", content |-> <<"o","l","d">>, createdAt |-> 4],
    [conversationId |-> 1, id |-> 4, role |-> "assistant", content |-> <<"o","k">>, createdAt |-> 5] }

Init ==
  /\ conversations = <<>>
  /\ activeConversationId = NoId
  /\ messages = <<>>
  /\ isSending = FALSE
  /\ chatError = ErrNone
  /\ subscribedConversationId = NoId
  /\ send = SendIdle
  /\ creates = {}
  /\ remoteConversations = StoredConversations
  /\ remoteMessages = StoredMessages
  /\ clock = FirstClock
  /\ clientSkew \in Skews
  /\ lastCall = "none"
  /\ sendCalls = 0
  /\ createCalls = 0
  /\ TimerInit
  /\ PeerInit

\* ------------------------------------------------------------ environment
\* mutant of ConversationsSnapshot: the delivered list is added to the one shown
ConversationsSnapshot_Appends ==
  /\ Render(conversations \o nextConversations, activeConversationId, messages)
  /\ lastCall' = "none"
  /\ UNCHANGED <<isSending, chatError, send, creates, remoteConversations,
                 remoteMessages, clock, clientSkew, sendCalls, createCalls>>
  /\ UNCHANGED <<timerVars, peerVars>>

\* onSnapshot callback of the conversations listener
ConversationsSnapshot ==
  /\ Render(nextConversations, activeConversationId, messages)
  /\ lastCall' = "none"
  /\ UNCHANGED <<isSending, chatError, send, creates, remoteConversations,
                 remoteMessages, clock, clientSkew, sendCalls, createCalls>>
  /\ UNCHANGED <<timerVars, peerVars>>

\* mutant of ConversationsError: the failed listener empties the list
ConversationsError_EmptiesList ==
  /\ Render(<<>>, activeConversationId, messages)
  /\ chatError' = ErrLoadConversations
  /\ lastCall' = "none"
  /\ UNCHANGED <<isSending, send, creates, remoteConversations,
                 remoteMessages, clock, clientSkew, sendCalls, createCalls>>
  /\ UNCHANGED <<timerVars, peerVars>>

\* error callback of the conversations listener
ConversationsError ==
  /\ chatError' = ErrLoadConversations
  /\ lastCall' = "none"
  /\ UNCHANGED <<conversations, activeConversationId, messages, isSending,
                 subscribedConversationId, send, creates, remoteConversations,
                 remoteMessages, clock, clientSkew, sendCalls, createCalls>>
  /\ UNCHANGED <<timerVars, peerVars>>

\* onSnapshot callback of the messages listener
MessagesSnapshot ==
  /\ subscribedConversationId # NoId
  /\ Render(conversations, activeConversationId, nextMessages(subscribedConversationId))
  /\ lastCall' = "none"
  /\ UNCHANGED <<isSending, chatError, send, creates, remoteConversations,
                 remoteMessages, clock, clientSkew, sendCalls, createCalls>>
  /\ UNCHANGED <<timerVars, peerVars>>

\* error callback of the messages listener
MessagesError ==
  /\ subscribedConversationId # NoId
  /\ chatError' = ErrLoadMessages
  /\ lastCall' = "none"
  /\ UNCHANGED <<conversations, activeConversationId, messages, isSending,
                 subscribedConversationId, send, creates, remoteConversations,
                 remoteMessages, clock, clientSkew, sendCalls, createCalls>>
  /\ UNCHANGED <<timerVars, peerVars>>

\* ---------------------------------------------------- selectConversation
\* onClick of a conversation item
SelectConversation(id) ==
  /\ id \in Ids(conversations)
  /\ Render(conversations, id, messages)
  /\ chatError' = ErrNone
  /\ lastCall' = "none"
  /\ UNCHANGED <<isSending, send, creates, remoteConversations, remoteMessages,
                 clock, clientSkew, sendCalls, createCalls>>
  /\ UNCHANGED <<timerVars, peerVars>>

\* ---------------------------------------------------- createConversation
\* mutant of OptimisticConversations: the new conversation is put last
OptimisticConversations_AtTail(newConversation, previousConversations) ==
  WithoutId(previousConversations, newConversation.id) \o <<newConversation>>

\* [newConversation, ...previousConversations.filter(...)]
OptimisticConversations(newConversation, previousConversations) ==
  <<newConversation>> \o WithoutId(previousConversations, newConversation.id)

\* the document written by setDoc(doc(db, 'mentorConversations', id), ...)
NewConversationDoc(id) ==
  [id |-> id, title |-> DefaultTitle, createdAt |-> serverNow, updatedAt |-> serverNow]

\* mutant of NewConversationRejected: the guard of line 719 is missing
NewConversationRejected_NeverRejects == FALSE

\* if (isSending) return;
NewConversationRejected == isSending

\* handleNewConversation while a send is in flight: early return
NewConversationIgnored ==
  /\ NewConversationRejected
  /\ lastCall' = "createIgnored"
  /\ UNCHANGED <<conversations, activeConversationId, messages, isSending, chatError,
                 subscribedConversationId, send, creates, remoteConversations,
                 remoteMessages, clock, clientSkew, sendCalls, createCalls>>
  /\ UNCHANGED <<timerVars, peerVars>>

\* handleNewConversation up to the await of setDoc
HandleNewConversation ==
  /\ ~NewConversationRejected
  /\ createCalls < MaxCreates
  /\ createCalls' = createCalls + 1
  /\ clock' = clock + 1
  /\ LET conversationId == generateId
         newConversation == [id |-> conversationId, title |-> DefaultTitle,
                             createdAt |-> now, updatedAt |-> now]
     IN /\ creates' = creates \cup
                        {[conversationId |-> conversationId,
                          previousConversations |-> conversations,
                          previousMessagesState |-> messages,
                          previousActiveId |-> activeConversationId]}
        /\ Render(OptimisticConversations(newConversation, conversations),
                  conversationId, <<>>)
  /\ chatError' = ErrNone
  /\ lastCall' = "none"
  /\ UNCHANGED <<isSending, send, remoteConversations, remoteMessages, clientSkew, sendCalls>>
  /\ UNCHANGED <<timerVars, peerVars>>

\* the setDoc of handleNewConversation resolves
NewConversationOk(c) ==
  /\ clock' = clock + 1
  /\ c \in creates
  /\ remoteConversations' = remoteConversations \cup {NewConversationDoc(c.conversationId)}
  /\ creates' = creates \ {c}
  /\ lastCall' = "none"
  /\ UNCHANGED <<conversations, activeConversationId, messages, isSending, chatError,
                 subscribedConversationId, send, remoteMessages, clientSkew, sendCalls, createCalls>>
  /\ UNCHANGED <<timerVars, peerVars>>

\* mutant of RestoredActiveId: the rollback leaves the optimistic id active
RestoredActiveId_KeepsOptimistic(c) == c.conversationId

\* setActiveConversationId(previousActiveId ?? null)
RestoredActiveId(c) == c.previousActiveId

\* the setDoc of handleNewConversation rejects: the catch block
NewConversationFail(c) ==
  /\ c \in creates
  /\ chatError' = ErrNewConversation
  /\ Render(c.previousConversations, RestoredActiveId(c), c.previousMessagesState)
  /\ creates' = creates \ {c}
  /\ lastCall' = "none"
  /\ UNCHANGED <<isSending, send, remoteConversations, remoteMessages, clock, clientSkew, sendCalls, createCalls>>
  /\ UNCHANGED <<timerVars, peerVars>>

\* ------------------------------------------------------------ sendMessage
computeIsFirstUserMessage(msgs) == Len(msgs) = 0

historyBeforeSend(s) ==
  [i \in 1..Len(s.previousMessages) |->
     [role |-> s.previousMessages[i].role, content |-> s.previousMessages[i].content]]

history(s) == historyBeforeSend(s) \o <<[role |-> "user", content |-> s.text]>>

ConversationAfterUser(existingConversation, conversationId, isFirstUserMessage, text, userCreatedAt) ==
  IF existingConversation # NoConversation
  THEN [id |-> existingConversation.id,
        title |-> IF isFirstUserMessage THEN generateTitle(text) ELSE existingConversation.title,
        createdAt |-> existingConversation.createdAt,
        updatedAt |-> userCreatedAt]
  ELSE [id |-> conversationId, title |-> generateTitle(text),
        createdAt |-> userCreatedAt, updatedAt |-> userCreatedAt]

ConversationAfterAssistant(conversationAfterUser, assistantCreatedAt) ==
  [id |-> conversationAfterUser.id, title |-> conversationAfterUser.title,
   createdAt |-> conversationAfterUser.createdAt, updatedAt |-> assistantCreatedAt]

\* mutant of messagesBeforeAssistant: the user message is rolled back as well
messagesBeforeAssistant_DropsUserMessage(s) == s.previousMessages

messagesBeforeAssistant(s) == s.previousMessages \o <<s.userMessage>>

\* setConversations((previous) => [conversation, ...others])
PutFirst(conversation, previous) ==
  <<conversation>> \o WithoutId(previous, conversation.id)

\* the setConversations of the catch block of the user-message writes
RollbackUserConversations(s, previous) ==
  IF s.existingConversation # NoConversation
  THEN <<s.existingConversation>> \o WithoutId(previous, s.conversationId)
  ELSE WithoutId(previous, s.conversationId)

\* mutant of AssistantContent: no fallback for an empty reply
AssistantContent_NoFallback(reply) == Trim(reply)

\* result?.choices?.[0]?.message?.content?.trim() || fallback
AssistantContent(reply) == IF Trim(reply) = <<>> THEN FallbackReply ELSE Trim(reply)

\* mutant of SendRejected: the guard forgets the empty draft
SendRejected_IgnoresEmptyDraft(draftMessage) == isSending

\* mutant of SendRejected: the guard forgets isSending
SendRejected_IgnoresPending(draftMessage) == Trim(draftMessage) = <<>>

\* if (!draftMessage.trim() || isSending) return;
SendRejected(draftMessage) == Trim(draftMessage) = <<>> \/ isSending

\* handleSendMessage with an empty draft or while a send is in flight: early return
SendMessageIgnored(draftMessage) ==
  /\ SendRejected(draftMessage)
  /\ lastCall' = "sendIgnored"
  /\ UNCHANGED <<conversations, activeConversationId, messages, isSending, chatError,
                 subscribedConversationId, send, creates, remoteConversations,
                 remoteMessages, clock, clientSkew, sendCalls, createCalls>>
  /\ UNCHANGED <<timerVars, peerVars>>

\* lines 826-867: the user message and the conversation entry are shown, then
\* the handler awaits the setDoc of the user message
ShowUserMessage(s, conversationId, active, userCreatedAt) ==
  LET existingConversation == FindConversation(s.conversations, conversationId)
      userMessage == [id |-> generateId, role |-> "user", content |-> s.text,
                      createdAt |-> userCreatedAt]
      conversationAfterUser ==
        ConversationAfterUser(existingConversation, conversationId,
                              s.isFirstUserMessage, s.text, userCreatedAt)
  IN /\ Render(PutFirst(conversationAfterUser, conversations), active,
               Append(messages, userMessage))
     /\ send' = [s EXCEPT !.pc = "userMsg",
                          !.conversationId = conversationId,
                          !.existingConversation = existingConversation,
                          !.userMessage = userMessage,
                          !.conversationAfterUser = conversationAfterUser]

\* handleSendMessage up to its first await
HandleSendMessage(draftMessage) ==
  /\ ~SendRejected(draftMessage)
  /\ isSending \/ sendCalls < MaxSends
  /\ sendCalls' = sendCalls + 1
  /\ LET s == [SendIdle EXCEPT !.text = Trim(draftMessage),
                               !.previousMessages = messages,
                               !.isFirstUserMessage = computeIsFirstUserMessage(messages),
                               !.conversations = conversations]
     IN IF activeConversationId = NoId
        THEN /\ send' = [s EXCEPT !.pc = "create", !.conversationId = generateId]
             /\ clock' = clock
             /\ UNCHANGED <<conversations, activeConversationId, messages,
                            subscribedConversationId>>
        ELSE /\ ShowUserMessage(s, activeConversationId, activeConversationId, now)
             /\ clock' = clock + 1
  /\ chatError' = ErrNone
  /\ isSending' = TRUE
  /\ lastCall' = "none"
  /\ UNCHANGED <<creates, remoteConversations, remoteMessages, clientSkew, createCalls>>
  /\ UNCHANGED <<timerVars, peerVars>>

\* the setDoc that creates the conversation of the message resolves
SendCreateOk ==
  /\ clock' = clock + 2
  /\ send.pc = "create"
  /\ remoteConversations' = remoteConversations \cup {NewConversationDoc(send.conversationId)}
  /\ ShowUserMessage(send, send.conversationId, send.conversationId, now + 1)
  /\ lastCall' = "none"
  /\ UNCHANGED <<isSending, chatError, creates, remoteMessages, clientSkew, sendCalls, createCalls>>
  /\ UNCHANGED <<timerVars, peerVars>>

\* mutant of SendCreateFail: the early return leaves isSending set
SendCreateFail_StaysPending ==
  /\ send.pc = "create"
  /\ chatError' = ErrOpenConversation
  /\ send' = SendIdle
  /\ lastCall' = "none"
  /\ UNCHANGED <<conversations, activeConversationId, messages, subscribedConversationId,
                 isSending, creates, remoteConversations, remoteMessages, clock, clientSkew,
                 sendCalls, createCalls>>
  /\ UNCHANGED <<timerVars, peerVars>>

\* the setDoc that creates the conversation of the message rejects
SendCreateFail ==
  /\ send.pc = "create"
  /\ chatError' = ErrOpenConversation
  /\ isSending' = FALSE
  /\ send' = SendIdle
  /\ lastCall' = "none"
  /\ UNCHANGED <<conversations, activeConversationId, messages, subscribedConversationId,
                 creates, remoteConversations, remoteMessages, clock, clientSkew, sendCalls, createCalls>>
  /\ UNCHANGED <<timerVars, peerVars>>

\* the document written for a message
MessageDoc(conversationId, message) ==
  [conversationId |-> conversationId, id |-> message.id, role |-> message.role,
   content |-> message.content, createdAt |-> serverNow]

\* updateDoc(conversationRef, fields): the stored document with fields replaced
UpdatedDocs(conversationId, title) ==
  { IF d.id = conversationId
    THEN [d EXCEPT !.title = title, !.updatedAt = serverNow]
    ELSE d : d \in remoteConversations }

Exists(conversationId) == \E d \in remoteConversations : d.id = conversationId

\* mutant of AfterUserMessageStored: the fetch is issued without awaiting updateDoc
AfterUserMessageStored_SkipsMetadata == "complete"

\* position after the setDoc of the user message resolved: the await of updateDoc
AfterUserMessageStored == "userMeta"

\* the setDoc of the user message resolves; the handler awaits updateDoc
SendUserMsgOk ==
  /\ clock' = clock + 1
  /\ send.pc = "userMsg"
  /\ remoteMessages' = remoteMessages \cup {MessageDoc(send.conversationId, send.userMessage)}
  /\ send' = [send EXCEPT !.pc = AfterUserMessageStored]
  /\ lastCall' = "none"
  /\ UNCHANGED <<conversations, activeConversationId, messages, isSending, chatError,
                 subscribedConversationId, creates, remoteConversations, clientSkew, sendCalls, createCalls>>
  /\ UNCHANGED <<timerVars, peerVars>>

\* the catch block of the user-message writes (lines 868-881)
RollbackUserMessage ==
  /\ Render(RollbackUserConversations(send, conversations), activeConversationId,
            send.previousMessages)
  /\ chatError' = ErrSendMessage
  /\ isSending' = FALSE
  /\ send' = SendIdle
  /\ lastCall' = "none"
  /\ UNCHANGED <<creates, remoteConversations, remoteMessages, clock, clientSkew, sendCalls, createCalls>>
  /\ UNCHANGED <<timerVars, peerVars>>

\* the setDoc of the user message rejects
SendUserMsgFail ==
  /\ send.pc = "userMsg"
  /\ RollbackUserMessage

\* the updateDoc after the user message rejects
SendUserMetaFail ==
  /\ send.pc = "userMeta"
  /\ RollbackUserMessage

\* the updateDoc after the user message resolves and a key is configured:
\* the handler awaits fetch
SendUserMetaOk ==
  /\ clock' = clock + 1
  /\ send.pc = "userMeta"
  /\ Exists(send.conversationId)
  /\ remoteConversations' = UpdatedDocs(send.conversationId, send.conversationAfterUser.title)
  /\ send' = [send EXCEPT !.pc = "complete"]
  /\ lastCall' = "none"
  /\ UNCHANGED <<conversations, activeConversationId, messages, isSending, chatError,
                 subscribedConversationId, creates, remoteMessages, clientSkew, sendCalls, createCalls>>
  /\ UNCHANGED <<timerVars, peerVars>>

\* mutant of IsSendingAfterCompletionError: the catch block leaves isSending set
IsSendingAfterCompletionError_StaysSet == TRUE

\* setIsSending(false) in the catch block of the completion request
IsSendingAfterCompletionError == FALSE

\* the updateDoc after the user message resolves and no key is configured:
\* the throw of line 890 and its catch block
SendUserMetaOkNoKey ==
  /\ clock' = clock + 1
  /\ send.pc = "userMeta"
  /\ Exists(send.conversationId)
  /\ remoteConversations' = UpdatedDocs(send.conversationId, send.conversationAfterUser.title)
  /\ chatError' = ErrMissingKey
  /\ isSending' = IsSendingAfterCompletionError
  /\ send' = SendIdle
  /\ lastCall' = "none"
  /\ UNCHANGED <<conversations, activeConversationId, messages, subscribedConversationId,
                 creates, remoteMessages, clientSkew, sendCalls, createCalls>>
  /\ UNCHANGED <<timerVars, peerVars>>

\* fetch rejects, or the response is not ok
SendCompletionFail(error) ==
  /\ send.pc = "complete"
  /\ chatError' = error
  /\ isSending' = IsSendingAfterCompletionError
  /\ send' = SendIdle
  /\ lastCall' = "none"
  /\ UNCHANGED <<conversations, activeConversationId, messages, subscribedConversationId,
                 creates, remoteConversations, remoteMessages, clock, clientSkew, sendCalls, createCalls>>
  /\ UNCHANGED <<timerVars, peerVars>>

\* fetch resolves with a reply: lines 916-953, then the handler awaits setDoc
SendCompletionOk(reply) ==
  /\ clock' = clock + 1
  /\ send.pc = "complete"
  /\ LET assistantMessage == [id |-> generateId, role |-> "assistant",
                              content |-> AssistantContent(reply), createdAt |-> now]
         conversationAfterAssistant ==
           ConversationAfterAssistant(send.conversationAfterUser, now)
     IN /\ Render(PutFirst(conversationAfterAssistant, conversations),
                  activeConversationId, Append(messages, assistantMessage))
        /\ send' = [send EXCEPT !.pc = "asstMsg", !.assistantMessage = assistantMessage]
  /\ lastCall' = "none"
  /\ UNCHANGED <<isSending, chatError, creates, remoteConversations, remoteMessages,
                 clientSkew, sendCalls, createCalls>>
  /\ UNCHANGED <<timerVars, peerVars>>

\* mutant of SendAsstMsgOk: the reply is written under the active conversation
SendAsstMsgOk_WritesToActive ==
  /\ clock' = clock + 1
  /\ send.pc = "asstMsg"
  /\ remoteMessages' = remoteMessages \cup {MessageDoc(activeConversationId, send.assistantMessage)}
  /\ send' = [send EXCEPT !.pc = "asstMeta"]
  /\ lastCall' = "none"
  /\ UNCHANGED <<conversations, activeConversationId, messages, isSending, chatError,
                 subscribedConversationId, creates, remoteConversations, clientSkew, sendCalls, createCalls>>
  /\ UNCHANGED <<timerVars, peerVars>>

\* the setDoc of the assistant message resolves; the handler awaits updateDoc
SendAsstMsgOk ==
  /\ clock' = clock + 1
  /\ send.pc = "asstMsg"
  /\ remoteMessages' = remoteMessages \cup {MessageDoc(send.conversationId, send.assistantMessage)}
  /\ send' = [send EXCEPT !.pc = "asstMeta"]
  /\ lastCall' = "none"
  /\ UNCHANGED <<conversations, activeConversationId, messages, isSending, chatError,
                 subscribedConversationId, creates, remoteConversations, clientSkew, sendCalls, createCalls>>
  /\ UNCHANGED <<timerVars, peerVars>>

\* the catch and finally blocks of the assistant-message writes (lines 964-974)
RollbackAssistantMessage ==
  /\ Render(PutFirst(send.conversationAfterUser, conversations), activeConversationId,
            messagesBeforeAssistant(send))
  /\ chatError' = ErrReplyNotSaved
  /\ isSending' = FALSE
  /\ send' = SendIdle
  /\ lastCall' = "none"
  /\ UNCHANGED <<creates, remoteConversations, remoteMessages, clock, clientSkew, sendCalls, createCalls>>
  /\ UNCHANGED <<timerVars, peerVars>>

\* the setDoc of the assistant message rejects
SendAsstMsgFail ==
  /\ send.pc = "asstMsg"
  /\ RollbackAssistantMessage

\* the updateDoc after the assistant message rejects
SendAsstMetaFail ==
  /\ send.pc = "asstMeta"
  /\ RollbackAssistantMessage

\* the updateDoc after the assistant message resolves: the finally block
SendAsstMetaOk ==
  /\ clock' = clock + 1
  /\ send.pc = "asstMeta"
  /\ Exists(send.conversationId)
  /\ remoteConversations' = { IF d.id = send.conversationId
                              THEN [d EXCEPT !.updatedAt = serverNow]
                              ELSE d : d \in remoteConversations }
  /\ isSending' = FALSE
  /\ send' = SendIdle
  /\ lastCall' = "none"
  /\ UNCHANGED <<conversations, activeConversationId, messages, chatError,
                 subscribedConversationId, creates, remoteMessages, clientSkew, sendCalls, createCalls>>
  /\ UNCHANGED <<timerVars, peerVars>>

\* ------------------------------------------------------------------- Next
Next ==
  \/ ConversationsSnapshot
  \/ MessagesSnapshot
  \/ \E id \in Ids(conversations) : SelectConversation(id)
  \/ NewConversationIgnored
  \/ HandleNewConversation
  \/ \E c \in creates : NewConversationOk(c)
  \/ \E c \in creates : NewConversationFail(c)
  \/ \E draftMessage \in Drafts : SendMessageIgnored(draftMessage)
  \/ \E draftMessage \in Drafts : HandleSendMessage(draftMessage)
  \/ SendCreateOk
  \/ SendCreateFail
  \/ SendUserMsgOk
  \/ SendUserMsgFail
  \/ SendUserMetaOk
  \/ SendUserMetaOkNoKey
  \/ SendUserMetaFail
  \/ \E error \in {ErrRequestFailed, ErrTransport} : SendCompletionFail(error)
  \/ \E reply \in Replies : SendCompletionOk(reply)
  \/ SendAsstMsgOk
  \/ SendAsstMsgFail
  \/ SendAsstMetaOk
  \/ SendAsstMetaFail

Spec == Init /\ [][Next]_vars

\* the same, with the error callbacks of the two listeners
NextWithErrors == Next \/ ConversationsError \/ MessagesError

\* the error callbacks do not read a clock: one client clock is enough
InitWithErrors == Init /\ clientSkew > 0

SpecWithErrors == InitWithErrors /\ [][NextWithErrors]_vars

\* every remote call of a send eventually resolves or rejects
SendContinue ==
  \/ SendCreateOk
  \/ SendCreateFail
  \/ SendUserMsgOk
  \/ SendUserMsgFail
  \/ SendUserMetaOk
  \/ SendUserMetaOkNoKey
  \/ SendUserMetaFail
  \/ \E error \in {ErrRequestFailed, ErrTransport} : SendCompletionFail(error)
  \/ \E reply \in Replies : SendCompletionOk(reply)
  \/ SendAsstMsgOk
  \/ SendAsstMsgFail
  \/ SendAsstMetaOk
  \/ SendAsstMetaFail

LiveSpec == Init /\ [][Next]_vars /\ WF_vars(SendContinue)

\* ---------------------------------------------------------------------------
\* The timer-driven chat
\* ---------------------------------------------------------------------------

\* mutant of ClearTimeout: the pending timer stays scheduled
ClearTimeout_KeepsTimer(timer, timers) == timers

\* if (pendingTimeout.current) window.clearTimeout(pendingTimeout.current)
ClearTimeout(timer, timers) == IF timer # NoTimer THEN timers \ {timer} ELSE timers

\* window.setTimeout returns an id no earlier call returned
NewTimer == timerSends + 1

\* handleSendMessage of the timer chat
TimerHandleSendMessage(draftMessage) ==
  /\ Trim(draftMessage) # <<>>
  /\ timerSends < MaxTimerSends
  /\ timerSends' = timerSends + 1
  /\ timerMessages' = Append(timerMessages, "self")
  /\ isCompanionTyping' = TRUE
  /\ pendingTimeout' = NewTimer
  /\ scheduled' = ClearTimeout(pendingTimeout, scheduled) \cup {NewTimer}
  /\ UNCHANGED <<appVars, peerVars>>

\* the callback of a scheduled timer runs
ReplyTimerFires(timer) ==
  /\ timer \in scheduled
  /\ scheduled' = scheduled \ {timer}
  /\ timerMessages' = Append(timerMessages, "companion")
  /\ isCompanionTyping' = FALSE
  /\ pendingTimeout' = NoTimer
  /\ UNCHANGED <<timerSends, appVars, peerVars>>

TimerNext ==
  \/ \E d \in Drafts : TimerHandleSendMessage(d)
  \/ \E timer \in scheduled : ReplyTimerFires(timer)

\* a scheduled timer eventually fires
TimerLiveSpec ==
  Init /\ [][TimerNext]_vars /\ WF_vars(\E timer \in scheduled : ReplyTimerFires(timer))


\* ---------------------------------------------------------------------------
\* The peer-to-peer chat
\* ---------------------------------------------------------------------------

\* mutant of SortedMembers: the caller comes first
SortedMembers_CallerFirst(uid, selectedUid) == <<uid, selectedUid>>

\* [user.uid, selectedUserProfile.uid].sort()
SortedMembers(uid, selectedUid) ==
  IF uid <= selectedUid THEN <<uid, selectedUid>> ELSE <<selectedUid, uid>>

\* members.join('_'): the id is the sequence of the sorted uids
PairId(uid, selectedUid) == SortedMembers(uid, selectedUid)

\* conv.members.includes(uid)
Includes(members, uid) == \E i \in 1..Len(members) : members[i] = uid

\* the handler of an App can be called: no call of it is suspended
PeerReady(u) == peerCalls[u].pc \in {"idle", "rejected"}

\* the conversations listener of an App delivers the stored conversations of its user
PeerConversationsSnapshot(u) ==
  /\ peerConversations' =
       [peerConversations EXCEPT ![u] = {d \in conversationDocs : Includes(d.members, u)}]
  /\ UNCHANGED <<currentConversationId, newMessage, peerCalls, conversationDocs,
                 messageDocs, peerOps, appVars, timerVars>>

\* handleUserSelect up to its await, or to its end when a conversation is found
HandleUserSelect(u, selected) ==
  /\ PeerReady(u)
  /\ selected # u
  /\ peerOps < MaxPeerOps
  /\ peerOps' = peerOps + 1
  /\ LET found == {c \in peerConversations[u] :
                     Includes(c.members, selected) /\ Includes(c.members, u)}
     IN IF found # {}
        THEN /\ \E c \in found :
                  currentConversationId' = [currentConversationId EXCEPT ![u] = c.id]
             /\ peerCalls' = [peerCalls EXCEPT ![u] = PeerIdle]
        ELSE /\ peerCalls' = [peerCalls EXCEPT ![u] =
                                [PeerIdle EXCEPT !.pc = "create",
                                                 !.conversationId = PairId(u, selected)]]
             /\ UNCHANGED currentConversationId
  /\ UNCHANGED <<peerConversations, newMessage, conversationDocs, messageDocs,
                 appVars, timerVars>>

\* the setDoc of handleUserSelect resolves
UserSelectCreateOk(u) ==
  /\ peerCalls[u].pc = "create"
  /\ LET id == peerCalls[u].conversationId
     IN /\ conversationDocs' =
             {d \in conversationDocs : d.id # id}
               \cup {[id |-> id, members |-> id, lastMessage |-> <<>>]}
        /\ currentConversationId' = [currentConversationId EXCEPT ![u] = id]
  /\ peerCalls' = [peerCalls EXCEPT ![u] = PeerIdle]
  /\ UNCHANGED <<peerConversations, newMessage, messageDocs, peerOps, appVars, timerVars>>

\* the setDoc of handleUserSelect rejects
UserSelectCreateFail(u) ==
  /\ peerCalls[u].pc = "create"
  /\ peerCalls' = [peerCalls EXCEPT ![u] = [PeerIdle EXCEPT !.pc = "rejected"]]
  /\ UNCHANGED <<peerConversations, currentConversationId, newMessage, conversationDocs,
                 messageDocs, peerOps, appVars, timerVars>>

\* onChange of the message input
TypeMessage(u, text) ==
  /\ newMessage[u] # text
  /\ newMessage' = [newMessage EXCEPT ![u] = text]
  /\ UNCHANGED <<peerConversations, currentConversationId, peerCalls, conversationDocs,
                 messageDocs, peerOps, appVars, timerVars>>

\* handleSendMessage of the peer chat up to the await of setDoc
PeerHandleSendMessage(u) ==
  /\ PeerReady(u)
  /\ currentConversationId[u] # NoPair
  /\ Trim(newMessage[u]) # <<>>
  /\ peerOps < MaxPeerOps
  /\ peerOps' = peerOps + 1
  /\ peerCalls' = [peerCalls EXCEPT ![u] =
                     [pc |-> "message", conversationId |-> currentConversationId[u],
                      content |-> Trim(newMessage[u])]]
  /\ UNCHANGED <<peerConversations, currentConversationId, newMessage, conversationDocs,
                 messageDocs, appVars, timerVars>>

\* the document written for the message of a call
PeerMessageDoc(u) ==
  [conversationId |-> peerCalls[u].conversationId, id |-> Cardinality(messageDocs) + 1,
   senderId |-> u, content |-> peerCalls[u].content]

\* the setDoc of the message resolves; the handler awaits updateDoc
PeerMessageOk(u) ==
  /\ peerCalls[u].pc = "message"
  /\ messageDocs' = messageDocs \cup {PeerMessageDoc(u)}
  /\ peerCalls' = [peerCalls EXCEPT ![u].pc = "lastMessage"]
  /\ UNCHANGED <<peerConversations, currentConversationId, newMessage, conversationDocs,
                 peerOps, appVars, timerVars>>

\* mutant of AfterMessageRejected: the handler goes on to updateDoc
AfterMessageRejected_Continues == "lastMessage"

\* position after the setDoc of the message rejected: the handler has ended
AfterMessageRejected == "rejected"

\* the setDoc of the message rejects
PeerMessageFail(u) ==
  /\ peerCalls[u].pc = "message"
  /\ peerCalls' = [peerCalls EXCEPT ![u].pc = AfterMessageRejected]
  /\ UNCHANGED <<peerConversations, currentConversationId, newMessage, conversationDocs,
                 messageDocs, peerOps, appVars, timerVars>>

\* the updateDoc of the conversation resolves, then setNewMessage('')
PeerLastMessageOk(u) ==
  /\ peerCalls[u].pc = "lastMessage"
  /\ \E d \in conversationDocs : d.id = peerCalls[u].conversationId
  /\ conversationDocs' =
       { IF d.id = peerCalls[u].conversationId
         THEN [d EXCEPT !.lastMessage = peerCalls[u].content]
         ELSE d : d \in conversationDocs }
  /\ newMessage' = [newMessage EXCEPT ![u] = <<>>]
  /\ peerCalls' = [peerCalls EXCEPT ![u] = PeerIdle]
  /\ UNCHANGED <<peerConversations, currentConversationId, messageDocs, peerOps,
                 appVars, timerVars>>

\* the updateDoc of the conversation rejects
PeerLastMessageFail(u) ==
  /\ peerCalls[u].pc = "lastMessage"
  /\ peerCalls' = [peerCalls EXCEPT ![u] = [PeerIdle EXCEPT !.pc = "rejected"]]
  /\ UNCHANGED <<peerConversations, currentConversationId, newMessage, conversationDocs,
                 messageDocs, peerOps, appVars, timerVars>>

PeerNext ==
  \/ \E u \in Apps : PeerConversationsSnapshot(u)
  \/ \E u \in Apps, selected \in Profiles : HandleUserSelect(u, selected)
  \/ \E u \in Apps : UserSelectCreateOk(u)
  \/ \E u \in Apps : UserSelectCreateFail(u)
  \/ \E u \in Apps, text \in PeerDrafts : TypeMessage(u, text)
  \/ \E u \in Apps : PeerHandleSendMessage(u)
  \/ \E u \in Apps : PeerMessageOk(u)
  \/ \E u \in Apps : PeerMessageFail(u)
  \/ \E u \in Apps : PeerLastMessageOk(u)
  \/ \E u \in Apps : PeerLastMessageFail(u)

PeerSpec == Init /\ [][PeerNext]_vars

\* ---------------------------------------------------------------------------
\* Properties
\* ---------------------------------------------------------------------------

\* what an entry of the conversation list shows
Shown(convs) == [i \in 1..Len(convs) |->
                   [id |-> convs[i].id, title |-> convs[i].title,
                    updatedAt |-> convs[i].updatedAt]]

\* the step in which the setDoc of the user message rejects
UserMessageWriteFails == SendUserMsgFail

\* C1: when the write of the user message fails, for a send in an existing
\* conversation at any position of a non-empty list, the conversation list is
\* back to its entries, order, titles and updatedAt of before the call, the
\* messages are those of before the call, and a persistence error is shown.
C1_UserWriteFailureRestoresState ==
  [][ (UserMessageWriteFails /\ send.existingConversation # NoConversation)
        => /\ Shown(conversations') = Shown(send.conversations)
           /\ messages' = send.previousMessages
           /\ chatError' \in PersistenceErrors ]_vars

\* the documents of this call's user message and of its conversation are stored
UserWritesStored ==
  /\ \E m \in remoteMessages : /\ m.id = send.userMessage.id
                               /\ m.conversationId = send.conversationId
                               /\ m.role = "user"
  /\ \E d \in remoteConversations : /\ d.id = send.conversationId
                                    /\ d.title = send.conversationAfterUser.title

\* C2: the completion request is issued only from the await of the metadata
\* update, with the user message and the conversation metadata stored; a
\* failure of either write ends the invocation without a request.
C2_CompletionAfterBothWrites ==
  [][ /\ (send'.pc = "complete" /\ send.pc # "complete")
          => (send.pc = "userMeta" /\ UserWritesStored')
      /\ (send.pc \in {"userMsg", "userMeta"} /\ chatError' = ErrSendMessage)
          => send'.pc = "idle" ]_vars

C2_Witness == send.pc = "complete" /\ UserWritesStored

\* C3: a sendMessage call made while a send is pending changes no field of the
\* store, starts no remote call and leaves nothing to run later.
C3_SendWhilePendingIsNoOp ==
  [][ (isSending /\ \E d \in Drafts : SendMessageIgnored(d) \/ HandleSendMessage(d))
        => UNCHANGED <<conversations, activeConversationId, messages, isSending,
                       chatError, subscribedConversationId, send, creates,
                       remoteConversations, remoteMessages>> ]_vars

C3_Witness == lastCall = "sendIgnored" /\ isSending /\ send.pc = "complete"

\* C4: when every remote call of a send eventually resolves or rejects, a
\* pending send is eventually followed by isSending being false.
C4_PendingEventuallyCleared == isSending ~> ~isSending

C4_Witness == sendCalls > 0 /\ ~isSending /\ chatError \in CompletionErrors

\* the ids of a list of messages, in list order
IdSeq(msgs) == [i \in 1..Len(msgs) |-> msgs[i].id]

\* the step in which the last write of a send resolves
SendSucceeds == SendAsstMetaOk

\* C5: when every step of a send succeeds, the messages after the call are
\* those of before the call followed by the user message and the assistant
\* message of the call, in this order.
C5_SuccessAppendsTwoMessages ==
  [][ SendSucceeds
        => IdSeq(messages') = IdSeq(send.previousMessages)
                                \o <<send.userMessage.id, send.assistantMessage.id>> ]_vars

\* the step in which the completion request of a send fails
CompletionFails ==
  \/ SendUserMetaOkNoKey
  \/ \E error \in {ErrRequestFailed, ErrTransport} : SendCompletionFail(error)

\* C6: when the completion request fails after the user message is stored, the
\* user message stays in messages, no assistant message is added or stored, a
\* completion error is shown and isSending is false.
C6_CompletionFailureKeepsUserMessage ==
  [][ CompletionFails
        => /\ \E i \in 1..Len(messages') : messages'[i].id = send.userMessage.id
           /\ \A i \in 1..Len(messages') :
                messages'[i].role = "assistant"
                  => \E j \in 1..Len(send.previousMessages) :
                       send.previousMessages[j].id = messages'[i].id
           /\ remoteMessages' = remoteMessages
           /\ chatError' \in CompletionErrors
           /\ ~isSending' ]_vars

\* the step in which a write of the assistant message rejects
AssistantWriteFails == SendAsstMsgFail \/ SendAsstMetaFail

\* C7: when the write of the assistant message fails, the user message stays in
\* messages and in the store, the assistant message is removed, the
\* conversation shows the updatedAt of the user-message step and a persistence
\* error is shown.
C7_AssistantWriteFailureKeepsUserMessage ==
  [][ AssistantWriteFails
        => /\ \E i \in 1..Len(messages') : messages'[i].id = send.userMessage.id
           /\ \A i \in 1..Len(messages') : messages'[i].id # send.assistantMessage.id
           /\ \E m \in remoteMessages' : m.id = send.userMessage.id
           /\ FindConversation(conversations', send.conversationId) # NoConversation
           /\ FindConversation(conversations', send.conversationId).updatedAt
                = send.userMessage.createdAt
           /\ chatError' \in PersistenceErrors
           /\ ~isSending' ]_vars

C7_Witness ==
  /\ chatError = ErrReplyNotSaved
  /\ ~isSending
  /\ sendCalls > 0
  /\ \E i \in 1..Len(messages) : messages[i].role = "user" /\ messages[i].id >= FirstGeneratedId

\* the step in which createConversation shows the new conversation
CreateStarts == HandleNewConversation

\* C8: before its remote create completes, createConversation puts a new entry
\* with a fresh id at the head of the list, makes it active and empties the
\* messages; the pending remote create carries the same id.
C8_CreateIsOptimistic ==
  [][ CreateStarts
        => /\ Len(conversations') = Len(conversations) + 1
           /\ conversations'[1].id \notin Ids(conversations)
           /\ conversations'[1].title = DefaultTitle
           /\ Tail(conversations') = conversations
           /\ activeConversationId' = conversations'[1].id
           /\ messages' = <<>>
           /\ \E c \in creates' \ creates : c.conversationId = conversations'[1].id
           /\ ~\E d \in remoteConversations' : d.id = conversations'[1].id ]_vars

C8_Witness ==
  /\ Len(conversations) > 1
  /\ \E c \in creates : /\ c.conversationId = conversations[1].id
                        /\ c.conversationId = activeConversationId
  /\ messages = <<>>

\* the step in which the remote create of createConversation rejects
CreateFails(c) == NewConversationFail(c)

\* C9: when the remote create fails, the optimistic entry is removed, the
\* active conversation and the messages are those of before the call, and a
\* persistence error is shown.
C9_CreateFailureRollsBack ==
  [][ \A c \in creates :
        CreateFails(c)
          => /\ c.conversationId \notin Ids(conversations')
             /\ activeConversationId' = c.previousActiveId
             /\ messages' = c.previousMessagesState
             /\ chatError' \in PersistenceErrors ]_vars

C9_Witness ==
  /\ chatError = ErrNewConversation
  /\ createCalls > 0
  /\ creates = {}
  /\ activeConversationId # NoId
  /\ activeConversationId # conversations[1].id

\* the conversation has a stored user message other than the one of this send
HasEarlierUserMessage(conversationId, stored) ==
  \E m \in stored : /\ m.conversationId = conversationId
                    /\ m.role = "user"
                    /\ m.id # send'.userMessage.id

\* the step in which a send shows its user message
UserMessageShown ==
  \/ SendCreateOk
  \/ send'.pc = "userMsg" /\ \E d \in Drafts : HandleSendMessage(d)

\* C10: sendMessage changes the title of a conversation, in the list and in the
\* store, only for the first user message of the conversation and only while
\* the title is the default title.
C10_TitleOnlyForFirstUserMessage ==
  [][ /\ \A i \in 1..Len(conversations) :
           (UserMessageShown /\ conversations[i].id = send'.conversationId
              /\ send'.conversationAfterUser.title # conversations[i].title)
             => /\ conversations[i].title = DefaultTitle
                /\ ~HasEarlierUserMessage(send'.conversationId, remoteMessages)
      /\ \A d \in remoteConversations :
           (send.pc = "userMeta" /\ d.id = send.conversationId
              /\ \E e \in remoteConversations' : e.id = d.id /\ e.title # d.title)
             => /\ d.title = DefaultTitle
                /\ ~\E m \in remoteMessages : /\ m.conversationId = d.id
                                              /\ m.role = "user"
                                              /\ m.id # send.userMessage.id ]_vars


\* no two entries of a list carry the same id
NoDuplicateIds(s) == \A i, j \in 1..Len(s) : s[i].id = s[j].id => i = j

\* C11: in every reachable state the conversation list is sorted by updatedAt
\* descending and holds no two entries with the same id (stated for a client
\* clock that is not behind the server clock, so that an optimistic timestamp
\* is never older than a stored one).
C11_ConversationsSortedNoDuplicates ==
  clientSkew >= 0
    => /\ \A i \in 1..(Len(conversations) - 1) :
            conversations[i].updatedAt >= conversations[i + 1].updatedAt
       /\ NoDuplicateIds(conversations)


\* a list of messages is in ascending order of createdAt
AscendingByCreatedAt(msgs) ==
  \A i \in 1..(Len(msgs) - 1) : msgs[i].createdAt <= msgs[i + 1].createdAt

\* C12: in every reachable state messages is ordered ascending by createdAt
\* and holds no two entries with the same id.
C12_MessagesAscendingNoDuplicates ==
  AscendingByCreatedAt(messages) /\ NoDuplicateIds(messages)


\* ---------------------------------------------------------------------------
\* The selector and the conversations listener on any list
\* ---------------------------------------------------------------------------

\* documents the collection may hold when a snapshot is taken
AnyStoredConversations ==
  StoredConversations \cup
    { [id |-> 3, title |-> <<"h","i">>, createdAt |-> 4, updatedAt |-> 4] }

\* what messages may show when the selector runs
AnyMessages ==
  { <<>>, <<[id |-> 3, role |-> "user", content |-> <<"o","l","d">>, createdAt |-> 4]>> }

\* one run of the selector effect, between a commit and the next render
SelectorEffect ==
  /\ activeConversationId' = SelectActive(conversations, activeConversationId)
  /\ lastCall' = "selector"
  /\ UNCHANGED <<conversations, messages, isSending, chatError, subscribedConversationId,
                 send, creates, remoteConversations, remoteMessages, clock, clientSkew,
                 sendCalls, createCalls>>
  /\ UNCHANGED <<timerVars, peerVars>>

\* a committed list and active id, the effects not yet run, no call in flight
SelectorInit ==
  /\ \E shown \in SUBSET AnyStoredConversations : conversations = ConversationsQuery(shown)
  /\ activeConversationId \in {NoId} \cup {d.id : d \in AnyStoredConversations}
  /\ messages \in AnyMessages
  /\ isSending = FALSE
  /\ chatError = ErrNone
  /\ subscribedConversationId = activeConversationId
  /\ send = SendIdle
  /\ creates = {}
  /\ remoteConversations \in SUBSET AnyStoredConversations
  /\ remoteMessages = StoredMessages
  /\ clock = FirstClock
  /\ clientSkew \in Skews
  /\ lastCall = "commit"
  /\ sendCalls = 0
  /\ createCalls = 0
  /\ TimerInit
  /\ PeerInit

SelectorNext == ConversationsSnapshot \/ SelectorEffect

SelectorSpec == SelectorInit /\ [][SelectorNext]_vars

\* the id the selector has to choose for a list and a previous active id
FirstOrNone(convs) == IF Len(convs) = 0 THEN NoId ELSE convs[1].id

\* C13: after a conversation-list snapshot is applied and the selector has run,
\* the active id is none or the id of an entry of the list; a previous active
\* id that is absent from the new list is replaced by the id of the first
\* entry, or by none when the list is empty.
C13_SelectorAfterSnapshot ==
  [][ ConversationsSnapshot
        => /\ conversations' = nextConversations
           /\ activeConversationId' \in {NoId} \cup Ids(conversations')
           /\ activeConversationId \notin Ids(conversations')
                => activeConversationId' = FirstOrNone(conversations') ]_vars

C13_Witness ==
  /\ lastCall = "none"
  /\ conversations = <<>>
  /\ activeConversationId = NoId
  /\ messages = <<>>
  /\ subscribedConversationId = NoId


\* C14: one run of the selector keeps a previous active id that is in the
\* list, otherwise chooses the id of the first entry, or none for an empty
\* list; run again on its own result it returns that result; it changes
\* neither the list nor messages.
C14_SelectorFunction ==
  [][ SelectorEffect
        => /\ activeConversationId \in Ids(conversations)
                => activeConversationId' = activeConversationId
           /\ activeConversationId \notin Ids(conversations)
                => activeConversationId' = FirstOrNone(conversations)
           /\ SelectActive(conversations', activeConversationId') = activeConversationId'
           /\ conversations' = conversations
           /\ messages' = messages ]_vars

C14_Witness ==
  /\ lastCall = "selector"
  /\ conversations = <<>>
  /\ activeConversationId = NoId
  /\ subscribedConversationId # NoId
  /\ messages # <<>>


\* the latest step applied a conversation-list snapshot, and the collection
\* has not changed since
SnapshotJustApplied == lastCall = "none"

C16_NoStaleMessageSnapshot ==
  [][ /\ subscribedConversationId' = activeConversationId'
      /\ MessagesSnapshot
           => /\ subscribedConversationId = activeConversationId
              /\ messages' = nextMessages(activeConversationId) ]_vars

C16_Witness ==
  /\ activeConversationId = 2
  /\ subscribedConversationId = 2
  /\ messages # <<>>
  /\ messages = nextMessages(2)
  /\ nextMessages(1) # <<>>


\* a message shown is stored as a message of another conversation than id
StoredElsewhere(message, id) ==
  \E m \in remoteMessages : m.id = message.id /\ m.conversationId # id

\* C17: selectConversation(id) makes id active and clears chatError, and the
\* messages shown from then on hold no message of another conversation, also
\* while the first snapshot of the messages of id is outstanding.
C17_SelectShowsOnlyOwnMessages ==
  [][ \A id \in Ids(conversations) :
        SelectConversation(id)
          => /\ activeConversationId' = id
             /\ chatError' = ErrNone
             /\ \A i \in 1..Len(messages') : ~StoredElsewhere(messages'[i], id) ]_vars


\* C18: a sendMessage call whose text is empty after trimming changes nothing:
\* no message is shown, no remote call is started, isSending stays as it is,
\* and conversations, activeConversationId and chatError are unchanged.
C18_EmptyDraftRejected ==
  [][ \A d \in Drafts :
        (Trim(d) = <<>> /\ (SendMessageIgnored(d) \/ HandleSendMessage(d)))
          => UNCHANGED <<conversations, activeConversationId, messages, isSending,
                         chatError, subscribedConversationId, send, creates,
                         remoteConversations, remoteMessages>> ]_vars

C18_Witness == lastCall = "sendIgnored" /\ ~isSending /\ conversations # <<>>


\* the step in which a write of the user message fails, for a send that was
\* called with no active conversation and created one
ImplicitSendRolledBack ==
  /\ SendUserMsgFail \/ SendUserMetaFail
  /\ send.existingConversation = NoConversation

\* C19: when a send that created its conversation fails to store the user
\* message, the conversation is absent from the list after the rollback, no
\* conversation is active, and the collection holds no document of it that a
\* later conversation-list snapshot would show as a default-titled entry.
C19_ImplicitConversationLeavesNoTrace ==
  [][ ImplicitSendRolledBack
        => /\ send.conversationId \notin Ids(conversations')
           /\ activeConversationId' = NoId
           /\ \A d \in remoteConversations' : d.id # send.conversationId ]_vars


\* C20: when a send ends by rolling back its user message, because the write
\* of the message or the metadata update after it failed, the store holds no
\* document of that message, so that no later snapshot can show it again.
C20_RolledBackMessageNotStored ==
  [][ (SendUserMsgFail \/ SendUserMetaFail)
        => /\ \A i \in 1..Len(messages') : messages'[i].id # send.userMessage.id
           /\ \A m \in remoteMessages' : m.id # send.userMessage.id ]_vars


\* C21: a rollback after a failed remote call removes the optimistic entry and
\* keeps what snapshots and selections established during the suspension: the
\* list and the messages are the current ones without the optimistic entry,
\* and a conversation selected during the suspension stays active.
C21_RollbackKeepsInterleavedEvents ==
  [][ /\ \A c \in creates :
           NewConversationFail(c)
             => /\ conversations' = WithoutId(conversations, c.conversationId)
                /\ activeConversationId # c.conversationId
                     => /\ activeConversationId' = activeConversationId
                        /\ messages' = messages
      /\ (SendUserMsgFail \/ SendUserMetaFail)
           => messages' = WithoutId(messages, send.userMessage.id) ]_vars


\* the handlers accept a call whenever their own guards allow one
AcceptsCalls ==
  /\ (~isSending /\ sendCalls < MaxSends)
       => \E d \in Drafts : ENABLED HandleSendMessage(d)
  /\ (~isSending /\ createCalls < MaxCreates) => ENABLED HandleNewConversation
  /\ \A id \in Ids(conversations) : ENABLED SelectConversation(id)

SucceedsOrSelects ==
  \/ SendAsstMetaOk
  \/ \E c \in creates : NewConversationOk(c)
  \/ \E id \in Ids(conversations) : SelectConversation(id)

\* C23: right after a fully successful sendMessage or createConversation, and
\* right after selectConversation, chatError is none.
C23_NoErrorAfterSuccess ==
  [][ SucceedsOrSelects => chatError' = ErrNone ]_vars

\* the send in flight targets the conversation that is shown, and the messages
\* it captured are messages of that conversation
SendOnShownConversation ==
  /\ send.conversationId = activeConversationId
  /\ \A j \in 1..Len(send.previousMessages) :
       \E m \in remoteMessages : /\ m.conversationId = send.conversationId
                                 /\ m.id = send.previousMessages[j].id

\* C24: when a send on the shown conversation fully succeeds, whatever message
\* snapshots were delivered before and during the call, messages is ascending
\* by createdAt and is the messages of before the call followed by the user
\* message and the assistant message of the call.  Stated for a client clock
\* that is not behind the server's, where createdAt follows the call order.
C24_SuccessfulSendsKeepCallOrder ==
  [][ (SendAsstMetaOk /\ SendOnShownConversation /\ clientSkew > 0)
        => /\ AscendingByCreatedAt(messages')
           /\ Len(messages') = Len(send.previousMessages) + 2
           /\ \A j \in 1..Len(send.previousMessages) :
                messages'[j].id = send.previousMessages[j].id
           /\ messages'[Len(messages') - 1].id = send.userMessage.id
           /\ messages'[Len(messages')].id = send.assistantMessage.id ]_vars

\* ---------------------------------------------------------------------------
\* Title derivation on any text
\* ---------------------------------------------------------------------------

TitleAlphabet == {"a"} \cup Whitespace

Letters(n) == [i \in 1..n |-> "a"]

\* what may stand before, between and after the words
Pads == UNION { [1..k -> TitleAlphabet] : k \in 0..MaxPad }

\* the texts a title is derived from: up to two words, the first of any length
\* up to MaxWord, with whitespace and letters around and between them
TitleInputs ==
  { head \o Letters(n) \o mid \o tail :
      head \in Pads, tail \in Pads,
      mid \in { <<>>, <<" ", "\t">> },
      n \in {0, 1} \cup ((TitleLimit - 3)..MaxWord) }

TitleInit ==
  /\ conversations = <<>>
  /\ activeConversationId = NoId
  /\ messages = <<>>
  /\ isSending = FALSE
  /\ chatError = ErrNone
  /\ subscribedConversationId = NoId
  /\ \E text \in TitleInputs : send = [SendIdle EXCEPT !.text = text]
  /\ creates = {}
  /\ remoteConversations = StoredConversations
  /\ remoteMessages = StoredMessages
  /\ clock = FirstClock
  /\ clientSkew \in Skews
  /\ lastCall = "none"
  /\ sendCalls = 0
  /\ createCalls = 0
  /\ TimerInit
  /\ PeerInit

\* the title of conversationAfterUser is derived from the text
DeriveTitle ==
  /\ send.pc = "idle"
  /\ send' = [send EXCEPT !.pc = "titled",
                          !.conversationAfterUser.title = generateTitle(send.text)]
  /\ UNCHANGED <<conversations, activeConversationId, messages, isSending, chatError,
                 subscribedConversationId, creates, remoteConversations, remoteMessages,
                 clock, clientSkew, lastCall, sendCalls, createCalls>>
  /\ UNCHANGED <<timerVars, peerVars>>

TitleNext == DeriveTitle

TitleSpec == TitleInit /\ [][TitleNext]_vars

\* the words of a text: its maximal runs of characters that are not whitespace
RECURSIVE Words(_)
Words(s) ==
  IF s = <<>> THEN <<>>
  ELSE IF IsSpace(Head(s)) THEN Words(Tail(s))
  ELSE LET n == CHOOSE k \in 1..Len(s) :
                  /\ \A i \in 1..k : ~IsSpace(s[i])
                  /\ k = Len(s) \/ IsSpace(s[k + 1])
       IN <<SubSeq(s, 1, n)>> \o Words(SubSeq(s, n + 1, Len(s)))

\* the words separated by single spaces
RECURSIVE JoinWords(_)
JoinWords(w) ==
  IF w = <<>> THEN <<>>
  ELSE IF Len(w) = 1 THEN w[1]
  ELSE w[1] \o <<" ">> \o JoinWords(Tail(w))

\* C25: with every whitespace run of the text collapsed to one space and the
\* ends trimmed, a cleaned text of at most 48 characters is the title, a longer
\* one gives its first 48 characters followed by the ellipsis, an empty one
\* gives the default title; the title is never empty nor longer than 49.
C25_TitleDerivation ==
  send.pc = "titled"
    => LET cleaned == JoinWords(Words(send.text))
           title == send.conversationAfterUser.title
       IN /\ cleaned = <<>> => title = DefaultTitle
          /\ (cleaned # <<>> /\ Len(cleaned) <= TitleLimit) => title = cleaned
          /\ Len(cleaned) > TitleLimit
               => title = SubSeq(cleaned, 1, TitleLimit) \o <<Ellipsis>>
          /\ title # <<>>
          /\ Len(title) <= TitleLimit + 1

C25_Witness ==
  /\ send.pc = "titled"
  /\ \E i \in 1..Len(send.text) : send.text[i] = "\t"
  /\ Len(JoinWords(Words(send.text))) < Len(send.text)
  /\ Len(send.conversationAfterUser.title) = TitleLimit + 1
  /\ send.conversationAfterUser.title[TitleLimit + 1] = Ellipsis

\* a step in which a failed write puts back what its call had captured
RollbackStep ==
  \/ SendUserMsgFail \/ SendUserMetaFail \/ SendAsstMsgFail \/ SendAsstMetaFail
  \/ \E c \in creates : NewConversationFail(c)

\* C26: the updatedAt shown for a conversation id in conversations never
\* decreases.  Stated for the steps that are not rollbacks: optimistic updates
\* and snapshot replacements.
C26_ShownUpdatedAtNeverDecreases ==
  [][ ~RollbackStep
        => \A id \in Ids(conversations) \cap Ids(conversations') :
             FindConversation(conversations', id).updatedAt
               >= FindConversation(conversations, id).updatedAt ]_vars

\* every entry of msgs is a stored message of conversation id
MessagesOf(msgs, id) ==
  \A i \in 1..Len(msgs) :
    \E m \in remoteMessages : m.conversationId = id /\ m.id = msgs[i].id

\* C27: isFirstUserMessage of a send is true exactly when messages at the call
\* holds no entry with role user, and the messages it is computed from are
\* messages of the conversation the send targets.
C27_FirstUserMessageFromTargetMessages ==
  [][ (\E d \in Drafts : HandleSendMessage(d))
        => /\ send'.isFirstUserMessage
                = (\A i \in 1..Len(messages) : messages[i].role # "user")
           /\ MessagesOf(messages, IF activeConversationId = NoId
                                   THEN send'.conversationId
                                   ELSE activeConversationId) ]_vars

\* C28: the history sent with the completion request is the {role, content} of
\* the prior messages of the conversation the send targets, in list order,
\* followed by the new user message; every role is user or assistant.
C28_HistoryOfTargetConversation ==
  [][ SendUserMetaOk
        => LET h == history(send)
           IN /\ Len(h) = Len(send.previousMessages) + 1
              /\ h[Len(h)] = [role |-> "user", content |-> send.text]
              /\ \A i \in 1..Len(h) : h[i].role \in {"user", "assistant"}
              /\ \A i \in 1..(Len(h) - 1) :
                   \E m \in remoteMessages :
                     /\ m.conversationId = send.conversationId
                     /\ m.id = send.previousMessages[i].id
                     /\ m.role = h[i].role
                     /\ m.content = h[i].content ]_vars

\* C29: a send called with no active conversation first creates a conversation
\* with a fresh id remotely, showing and storing nothing before the create
\* resolves; when the create succeeds the conversation becomes active; when it
\* fails no message is shown or stored, no completion request follows,
\* conversations, activeConversationId and messages stay as they are,
\* chatError is set and isSending is false.
C29_ImplicitCreateBeforeMessage ==
  [][ /\ ((\E d \in Drafts : HandleSendMessage(d)) /\ activeConversationId = NoId)
           => /\ send'.pc = "create"
              /\ send'.conversationId \notin UsedIds
              /\ UNCHANGED <<conversations, activeConversationId, messages,
                             remoteConversations, remoteMessages>>
      /\ SendCreateOk
           => /\ send.conversationId \notin {c.id : c \in remoteConversations}
              /\ send.conversationId \in {c.id : c \in remoteConversations'}
              /\ activeConversationId' = send.conversationId
              /\ send.userMessage = NoMessage
              /\ remoteMessages' = remoteMessages
      /\ SendCreateFail
           => /\ UNCHANGED <<conversations, activeConversationId, messages,
                             remoteConversations, remoteMessages>>
              /\ send' = SendIdle
              /\ chatError' = ErrOpenConversation
              /\ ~isSending' ]_vars

C29_Witness ==
  /\ chatError = ErrOpenConversation
  /\ ~isSending
  /\ send = SendIdle
  /\ sendCalls > 0
  /\ remoteMessages = StoredMessages
  /\ remoteConversations = StoredConversations

\* C30: every message a send shows or stores has a content that is not empty:
\* the user message carries the trimmed text, which is not empty, and an empty
\* or absent reply of the endpoint gives an assistant message that carries the
\* fallback text.
C30_MessagesHaveContent ==
  [][ /\ \A i \in 1..Len(messages') : messages'[i].content # <<>>
      /\ \A m \in remoteMessages' : m.content # <<>>
      /\ send'.userMessage # NoMessage
           => /\ send'.userMessage.content = send'.text
              /\ send'.text # <<>>
              /\ Trim(send'.text) = send'.text
      /\ \A reply \in Replies :
           SendCompletionOk(reply)
             => send'.assistantMessage.content
                  = IF Trim(reply) = <<>> THEN FallbackReply ELSE Trim(reply) ]_vars

C30_Witness ==
  /\ \E i \in 1..Len(messages) :
       messages[i].role = "assistant" /\ messages[i].content = FallbackReply
  /\ \E m \in remoteMessages : m.role = "assistant" /\ m.content = FallbackReply

\* number of entries of s with the given id
CountId(s, id) == Cardinality({i \in 1..Len(s) : s[i].id = id})

\* C31: when the setDoc of a createConversation resolves, the new conversation
\* is the active one and is listed exactly once in conversations, whatever
\* list snapshots were delivered since the optimistic insert.
C31_CreatedConversationActiveAndListed ==
  [][ \A c \in creates :
        NewConversationOk(c)
          => /\ activeConversationId' = c.conversationId
             /\ CountId(conversations', c.conversationId) = 1 ]_vars

\* a step of the send in flight that shows its reply or rolls it back
ReplyOrRollback ==
  \/ \E reply \in Replies : SendCompletionOk(reply)
  \/ SendUserMsgFail \/ SendUserMetaFail \/ SendAsstMsgFail \/ SendAsstMetaFail

\* C32: when the messages shown are those of the active conversation and the
\* send in flight targets another conversation, neither its assistant reply
\* nor its rollback puts a message of that other conversation into messages.
C32_NoForeignMessageEnters ==
  [][ ( /\ ReplyOrRollback
        /\ send.conversationId # activeConversationId
        /\ MessagesOf(messages, activeConversationId) )
        => \A i \in 1..Len(messages') :
             /\ ~StoredElsewhere(messages'[i], activeConversationId')
             /\ messages'[i].id \notin {send.userMessage.id, send'.assistantMessage.id} ]_vars

\* a step in which a remote write of the send in flight resolves
SendWrite ==
  SendCreateOk \/ SendUserMsgOk \/ SendUserMetaOk \/ SendAsstMsgOk \/ SendAsstMetaOk

\* C33: the conversation of a send is resolved when it is called (the active
\* one, or a fresh id when none is active) and does not change while the send
\* is in flight; every message document and every conversation document a
\* write of the send adds or changes is of that conversation, whatever
\* conversation is active when the write resolves.
C33_WritesTargetResolvedConversation ==
  [][ /\ \A d \in Drafts :
           HandleSendMessage(d)
             => send'.conversationId = IF activeConversationId = NoId
                                       THEN generateId ELSE activeConversationId
      /\ (send.pc # "idle" /\ send'.pc # "idle")
           => send'.conversationId = send.conversationId
      /\ SendWrite
           => /\ \A m \in remoteMessages' \ remoteMessages :
                   m.conversationId = send.conversationId
              /\ \A c \in remoteConversations' \ remoteConversations :
                   c.id = send.conversationId ]_vars

C33_Witness ==
  /\ send.pc = "asstMeta"
  /\ activeConversationId \notin {NoId, send.conversationId}
  /\ \E m \in remoteMessages :
       /\ m.id = send.assistantMessage.id
       /\ m.conversationId = send.conversationId
  /\ \E m \in remoteMessages :
       /\ m.id = send.userMessage.id
       /\ m.conversationId = send.conversationId

\* C34: a createConversation call made while a send is pending changes
\* nothing: no conversation is inserted, activeConversationId and messages
\* stay as they are and no remote create is started.
C34_CreateWhilePendingIsNoOp ==
  [][ (isSending /\ (NewConversationIgnored \/ HandleNewConversation))
        => UNCHANGED <<conversations, activeConversationId, messages, isSending,
                       chatError, subscribedConversationId, send, creates,
                       remoteConversations, remoteMessages, createCalls>> ]_vars

C34_Witness ==
  /\ lastCall = "createIgnored"
  /\ isSending
  /\ send.pc = "complete"
  /\ creates = {}
  /\ createCalls = 0

\* ---------------------------------------------------------------------------
\* The effects when stored conversations disappear
\* ---------------------------------------------------------------------------

\* a stored conversation is deleted from outside the application
RemoteDelete ==
  /\ \E d \in remoteConversations : remoteConversations' = remoteConversations \ {d}
  /\ UNCHANGED <<conversations, activeConversationId, messages, isSending, chatError,
                 subscribedConversationId, send, creates, remoteMessages, clock,
                 clientSkew, lastCall, sendCalls, createCalls>>
  /\ UNCHANGED <<timerVars, peerVars>>

EffectsNext ==
  \/ ConversationsSnapshot
  \/ MessagesSnapshot
  \/ \E id \in Ids(conversations) : SelectConversation(id)
  \/ ConversationsError
  \/ MessagesError
  \/ RemoteDelete

EffectsSpec == Init /\ [][EffectsNext]_vars

\* C35: once the effects have run, a state with no active conversation shows
\* no message and has no live message listener.
C35_NoActiveNoMessages ==
  activeConversationId = NoId
    => messages = <<>> /\ subscribedConversationId = NoId

C35_Witness ==
  /\ activeConversationId = NoId
  /\ messages = <<>>
  /\ subscribedConversationId = NoId
  /\ remoteConversations = {}
  /\ lastCall = "none"
  /\ chatError = ErrNone
  /\ conversations = <<>>
  /\ \E m \in remoteMessages : m.conversationId \notin Ids(conversations)

\* C36: the typing indicator is on exactly when a reply timer is scheduled and
\* at most one is scheduled; a send cancels the pending reply and schedules a
\* new one after appending its self message; a reply is appended right after
\* the last self message and leaves no timer and the indicator off; the
\* indicator, once on, eventually goes off.
C36_OneReplyPerBurst ==
  /\ [](isCompanionTyping <=> scheduled # {})
  /\ [](Cardinality(scheduled) <= 1)
  /\ [][ (\E d \in Drafts : TimerHandleSendMessage(d))
           => /\ timerMessages' = Append(timerMessages, "self")
              /\ scheduled' = {pendingTimeout'}
              /\ pendingTimeout' \notin scheduled ]_vars
  /\ [][ (\E timer \in scheduled : ReplyTimerFires(timer))
           => /\ timerMessages[Len(timerMessages)] = "self"
              /\ timerMessages' = Append(timerMessages, "companion")
              /\ scheduled' = {}
              /\ ~isCompanionTyping' ]_vars
  /\ (isCompanionTyping ~> ~isCompanionTyping)

C36_Witness ==
  /\ timerMessages = SeedMessages \o <<"self", "self", "self", "companion">>
  /\ ~isCompanionTyping
  /\ scheduled = {}
  /\ pendingTimeout = NoTimer

\* the set of the uids of a conversation
MemberSet(members) == {members[i] : i \in 1..Len(members)}

\* C37: the conversation id of a pair of users does not depend on which of the
\* two selects the other; handleUserSelect, when the conversations of the App
\* hold one with both users, makes it current and writes nothing; and the
\* stored conversations never hold two records for the same pair.
C37_OneConversationPerPair ==
  /\ [](\A a \in Profiles, b \in Profiles : PairId(a, b) = PairId(b, a))
  /\ [](\A c \in conversationDocs, d \in conversationDocs :
          MemberSet(c.members) = MemberSet(d.members) => c = d)
  /\ [][ \A u \in Apps, selected \in Profiles :
           ( /\ HandleUserSelect(u, selected)
             /\ \E c \in peerConversations[u] : MemberSet(c.members) = {u, selected} )
             => /\ conversationDocs' = conversationDocs
                /\ peerCalls'[u].pc = "idle"
                /\ currentConversationId'[u] = PairId(u, selected) ]_vars

C37_Witness ==
  /\ currentConversationId[1] = PairId(1, 2)
  /\ currentConversationId[2] = PairId(2, 1)
  /\ peerOps = 3
  /\ \A u \in Apps : peerCalls[u].pc = "idle"
  /\ Cardinality({c \in conversationDocs : MemberSet(c.members) = {1, 2}}) = 1

\* C38: the message document of a send is stored before lastMessage of the
\* conversation is updated; when the write of the message fails, the handler
\* ends: lastMessage is not updated and the draft is not cleared.
C38_MessageBeforeLastMessage ==
  [][ \A u \in Apps :
        /\ PeerMessageOk(u)
             => /\ conversationDocs' = conversationDocs
                /\ \E m \in messageDocs' \ messageDocs :
                     /\ m.conversationId = peerCalls[u].conversationId
                     /\ m.content = peerCalls[u].content
        /\ PeerLastMessageOk(u)
             => \E m \in messageDocs :
                  /\ m.conversationId = peerCalls[u].conversationId
                  /\ m.senderId = u
                  /\ m.content = peerCalls[u].content
        /\ PeerMessageFail(u)
             => /\ conversationDocs' = conversationDocs
                /\ messageDocs' = messageDocs
                /\ newMessage' = newMessage
                /\ PeerReady(u)' ]_vars

C38_Witness ==
  \E u \in Apps :
    /\ peerCalls[u] = [pc |-> "rejected", conversationId |-> currentConversationId[u],
                       content |-> Trim(newMessage[u])]
    /\ newMessage[u] # <<>>
    /\ messageDocs = {}
    /\ \A d \in conversationDocs : d.lastMessage = <<>>

====
